---- MODULE Spec2Model ----
(***************************************************************************)
(* Telemetry sampling, retention and websocket fan-out of Dashboard_Pi.    *)
(*                                                                         *)
(* The program runs on one asyncio event loop: a coroutine runs without    *)
(* interruption from one await that suspends to the next, so every action  *)
(* below is the code between two suspension points.  Environment outcomes  *)
(* (an I/O call returning or raising, which message a viewer sends) are    *)
(* chosen with \E.  Time is abstracted to an hour counter.                 *)
(*                                                                         *)
(* Task.cancel() makes the cancelled task's next step raise CancelledError *)
(* at the await it is suspended on.  CancelledError derives from           *)
(* BaseException (Python >= 3.8, which the imported libraries require), so *)
(* "except Exception" does not catch it.                                   *)
(***************************************************************************)
EXTENDS Integers, Sequences, FiniteSets, TLC

\* ---- bounds of the model ------------------------------------------------
NumHandles == 2          \* websocket objects that may ever be created
ClockStep == 12          \* hours by which the clock advances in one step
MaxTime == 36            \* the clock stops advancing here

\* ---- program constants --------------------------------------------------
history_retention_hours == 24
cpu_alert_threshold == 80
ram_alert_threshold == 80
disk_alert_threshold == 90
temp_alert_threshold == 70
collection_interval == 2     \* seconds
cpu_percent_interval == 1    \* tenths of a second: psutil.cpu_percent(interval=0.1)

\* ---- inputs the alert evaluator is tried on ---------------------------------
Percents == {50, 80, 85, 90, 95}     \* cpu, ram and disk readings (percent)
Temperatures == {-3, 0, 70, 75}      \* present temperature readings
CpuThresholds == {80, 90}
TempThresholds == {-5, 0, 70}

\* ---- the timed run: all times are in tenths of a second ---------------------
Intervals == {10, collection_interval * 10}   \* settings.collection_interval
RunDurations == {50, 120}                     \* from the launch to the stop
\* what a tick takes from the loop top to the return of its commit: at least
\* the time collect_metrics blocks in psutil.cpu_percent
TickDurations == {cpu_percent_interval, 6}

\* ---- texts a viewer may send ------------------------------------------------
InboundTexts == {"ping", "PING"}

Handles == 1..NumHandles
Collector == 0           \* identity of the sampling task in the lock queue

VARIABLES
    lifespan_pc,             \* where lifespan() is
    background_task_running, \* the module-level flag
    collector_pc,            \* where collect_and_store_metrics() is suspended
    collector_cancel,        \* collector_task.cancel() requested
    cleanup_pc,              \* where cleanup_old_metrics() is suspended
    cleanup_cancel,          \* cleanup_task.cancel() requested
    active_connections,      \* manager.active_connections (a list)
    lock_locked,             \* manager._lock._locked
    lock_waiters,            \* manager._lock._waiters, FIFO
    ws_pc,                   \* where each websocket_endpoint() is suspended
    send_idx,                \* position of broadcast's for loop in the list
    disconnected,            \* broadcast's local list "disconnected"
    store,                   \* the rows of table "metrics"
    now,                     \* the clock (hours)
    cutoff,                  \* cleanup_old_metrics' local "cutoff"
    victims,                 \* rows matched by the DELETE, not yet committed
    \* ---- history variables (observation only) ----
    bcast_at_call,           \* registry when broadcast() was invoked
    bcast_at_pass,           \* registry when the delivery pass began
    bcast_attempted,         \* handles send_text was called on in this call
    bcast_failed,            \* handles whose send_text raised in this call
    removed_by,              \* who took each handle out of the registry
    last_tick,               \* outcome of the last finished sampling tick
    tick_parity,             \* flips each time a tick begins
    last_sweep,              \* outcome of the last finished sweep
    swept,                   \* rows the last committed sweep deleted
    \* ---- the alert evaluator called on its own ----
    settings,                \* the alert thresholds of get_settings()
    alert_input,             \* the dict check_alerts() is called with
    alert_output,            \* what that call returned
    \* ---- the snapshot of a tick and its way to the store and the viewers ----
    system,                  \* the readings psutil gets from the machine
    metrics,                 \* collect_and_store_metrics' local "metrics"
    message,                 \* broadcast's local "message"
    latest_response,         \* what GET /api/metrics/latest last answered
    ws_event,                \* how each endpoint's last heartbeat wait ended
    initial_event,           \* the dict each endpoint's send_json is sending
    \* ---- the sampling loop against the clock (timed specification only) ----
    interval,                \* settings.collection_interval of the run
    run_for,                 \* how long after the launch the stop is requested
    elapsed,                 \* time since the tasks were launched
    due,                     \* when the await the sampling task is in ends
    rows_committed           \* INSERTs committed during the timed run

vars == <<lifespan_pc, background_task_running, collector_pc, collector_cancel,
          cleanup_pc, cleanup_cancel, active_connections, lock_locked,
          lock_waiters, ws_pc, send_idx, disconnected, store, now, cutoff,
          victims, bcast_at_call, bcast_at_pass, bcast_attempted, bcast_failed,
          removed_by, last_tick, tick_parity, last_sweep, swept, settings,
          alert_input, alert_output, system, metrics, message,
          latest_response, ws_event, initial_event, interval, run_for,
          elapsed, due, rows_committed>>

lifespan_vars == <<lifespan_pc>>
collector_vars == <<collector_pc, send_idx, disconnected, last_tick,
                    tick_parity, bcast_at_call, bcast_at_pass, bcast_attempted,
                    bcast_failed, metrics, message>>
cleanup_vars == <<cleanup_pc, cutoff, victims, last_sweep, swept>>
cancel_vars == <<collector_cancel, cleanup_cancel>>
registry_vars == <<active_connections, lock_locked, lock_waiters, removed_by>>
bcast_hist == <<bcast_at_call, bcast_at_pass, bcast_attempted, bcast_failed>>
alert_vars == <<settings, alert_input, alert_output>>
timed_vars == <<interval, run_for, elapsed, due, rows_committed>>
\* what no step of lifespan, the two tasks or the registry touches
elsewhere == <<alert_vars, system, latest_response, timed_vars>>

\* ---- list helpers -------------------------------------------------------
Range(l) == {l[i] : i \in 1..Len(l)}

InList(h, l) == \E i \in 1..Len(l) : l[i] = h

\* list.remove(h): drops the first occurrence
Remove(l, h) ==
    LET i == CHOOSE k \in 1..Len(l) : l[k] = h /\ \A j \in 1..(k-1) : l[j] # h
    IN  SubSeq(l, 1, i-1) \o SubSeq(l, i+1, Len(l))

RemoveFromQueue(q, p) == SelectSeq(q, LAMBDA x : x # p)

\* ---- check_alerts ------------------------------------------------------------
\* An Optional[float] is <<>> for None and <<x>> for the float x.
None == <<>>

\* Python's truth value of an Optional[float]: None and 0.0 are false
truthy(x) == x # None /\ x[1] # 0

\* alerts.append(...) when the test holds
append_if(alerts, test, metric, value) ==
    IF test THEN Append(alerts, [metric |-> metric, value |-> value])
    ELSE alerts

\* (variant: the comparisons are strict)
check_alerts_strict(m, s) ==
    LET a1 == append_if(<<>>, m.cpu_percent > s.cpu_alert_threshold,
                        "cpu", m.cpu_percent)
        a2 == append_if(a1, m.ram_percent > s.ram_alert_threshold,
                        "ram", m.ram_percent)
        a3 == append_if(a2, m.disk_percent > s.disk_alert_threshold,
                        "disk", m.disk_percent)
        a4 == IF truthy(m.cpu_temp) /\ m.cpu_temp[1] > s.temp_alert_threshold
              THEN Append(a3, [metric |-> "temp", value |-> m.cpu_temp[1]])
              ELSE a3
    IN  a4

\* the four tests in the order of the code; an alert is the pair of the
\* metric it is about and the value its message shows
check_alerts(m, s) ==
    LET a1 == append_if(<<>>, m.cpu_percent >= s.cpu_alert_threshold,
                        "cpu", m.cpu_percent)
        a2 == append_if(a1, m.ram_percent >= s.ram_alert_threshold,
                        "ram", m.ram_percent)
        a3 == append_if(a2, m.disk_percent >= s.disk_alert_threshold,
                        "disk", m.disk_percent)
        a4 == IF truthy(m.cpu_temp) /\ m.cpu_temp[1] >= s.temp_alert_threshold
              THEN Append(a3, [metric |-> "temp", value |-> m.cpu_temp[1]])
              ELSE a3
    IN  a4

\* the thresholds of Settings when the environment overrides none of them
default_settings ==
    [cpu_alert_threshold |-> cpu_alert_threshold,
     ram_alert_threshold |-> ram_alert_threshold,
     disk_alert_threshold |-> disk_alert_threshold,
     temp_alert_threshold |-> temp_alert_threshold]

\* ---- collect_metrics ---------------------------------------------------------
\* what the machine may read: a busy one with a sensor (the readings of the
\* documented example) and a quiet one without.  The values are those psutil
\* yields after the rounding of collect_metrics.
reading_busy ==
    [cpu_percent |-> 85, ram_percent |-> 50, ram_used_gb |-> 2,
     ram_total_gb |-> 4, disk_percent |-> 95, disk_used_gb |-> 30,
     disk_total_gb |-> 32, cpu_temp |-> <<75>>, uptime_seconds |-> 93784]

reading_quiet ==
    [cpu_percent |-> 20, ram_percent |-> 30, ram_used_gb |-> 1,
     ram_total_gb |-> 4, disk_percent |-> 40, disk_used_gb |-> 12,
     disk_total_gb |-> 32, cpu_temp |-> None, uptime_seconds |-> 59]

Readings == {reading_busy, reading_quiet}

\* format_uptime: the parts "<days>j", "<hours>h", "<minutes>m" that are
\* positive, then "<secs>s", each as the pair of its number and its letter
format_uptime(seconds) ==
    LET days == seconds \div 86400
        rest == seconds % 86400
        hours == rest \div 3600
        remainder == rest % 3600
        minutes == remainder \div 60
        secs == remainder % 60
    IN  (IF days > 0 THEN << <<days, "j">> >> ELSE <<>>)
        \o (IF hours > 0 THEN << <<hours, "h">> >> ELSE <<>>)
        \o (IF minutes > 0 THEN << <<minutes, "m">> >> ELSE <<>>)
        \o << <<secs, "s">> >>

\* (variant: a metric that alerted in the previous tick is not reported again)
collect_metrics_deduplicating(sys, s) ==
    LET all == check_alerts(sys, s)
        before == IF metrics = None THEN {}
                  ELSE {metrics[1].alerts[i].metric :
                            i \in 1..Len(metrics[1].alerts)}
    IN  [cpu_percent |-> sys.cpu_percent,
         ram_percent |-> sys.ram_percent,
         ram_used_gb |-> sys.ram_used_gb,
         ram_total_gb |-> sys.ram_total_gb,
         disk_percent |-> sys.disk_percent,
         disk_used_gb |-> sys.disk_used_gb,
         disk_total_gb |-> sys.disk_total_gb,
         cpu_temp |-> sys.cpu_temp,
         uptime_seconds |-> sys.uptime_seconds,
         uptime_formatted |-> format_uptime(sys.uptime_seconds),
         alerts |-> SelectSeq(all, LAMBDA a : a.metric \notin before)]

\* the dict collect_metrics() returns when the machine reads sys
collect_metrics(sys, s) ==
    [cpu_percent |-> sys.cpu_percent,
     ram_percent |-> sys.ram_percent,
     ram_used_gb |-> sys.ram_used_gb,
     ram_total_gb |-> sys.ram_total_gb,
     disk_percent |-> sys.disk_percent,
     disk_used_gb |-> sys.disk_used_gb,
     disk_total_gb |-> sys.disk_total_gb,
     cpu_temp |-> sys.cpu_temp,
     uptime_seconds |-> sys.uptime_seconds,
     uptime_formatted |-> format_uptime(sys.uptime_seconds),
     alerts |-> check_alerts(sys, s)]

\* the load of the machine changes
system_changes ==
    /\ system' \in Readings \ {system}
    /\ UNCHANGED <<alert_vars, latest_response, ws_event, initial_event,
                   timed_vars>>
    /\ UNCHANGED <<lifespan_pc, background_task_running, collector_vars,
                   cleanup_vars, cancel_vars, registry_vars, ws_pc, store,
                   now>>

\* check_alerts(alert_input) is called and returns
check_alerts_returns ==
    /\ ~alert_output.returned
    /\ alert_output' = [returned |-> TRUE,
                        alerts |-> check_alerts(alert_input, settings)]
    /\ UNCHANGED <<settings, alert_input, system, latest_response, ws_event,
                   initial_event, timed_vars>>
    /\ UNCHANGED <<lifespan_pc, background_task_running, collector_vars,
                   cleanup_vars, cancel_vars, registry_vars, ws_pc, store,
                   now>>

\* ---- asyncio.Lock -------------------------------------------------------
\* (variant: acquire() takes a free lock even when waiters are queued)
LockFree_barging == ~lock_locked

\* acquire() returns without suspending only when the lock is free and no
\* waiter is queued; otherwise the caller is appended to the waiters.
LockFree == ~lock_locked /\ lock_waiters = <<>>

\* a queued waiter resumes once the lock is released and it is first in line
Woken(p) == ~lock_locked /\ lock_waiters # <<>> /\ Head(lock_waiters) = p

\* ---- ConnectionManager --------------------------------------------------
\* (variant: the handle is put on the list a second time)
connect_append_twice(conns, h) == Append(Append(conns, h), h)

\* body of connect under the lock
connect_append(conns, h) == Append(conns, h)

\* the property connection_count
connection_count == Len(active_connections)

\* (variant: list.remove without the membership test raises ValueError)
disconnect_unguarded(conns, h) ==
    IF InList(h, conns) THEN [conns |-> Remove(conns, h), raised |-> FALSE]
    ELSE [conns |-> conns, raised |-> TRUE]

\* body of disconnect under the lock; raised tells whether it raised
disconnect_body(conns, h) ==
    IF InList(h, conns) THEN [conns |-> Remove(conns, h), raised |-> FALSE]
    ELSE [conns |-> conns, raised |-> FALSE]

\* (variant: the removal pass is left out)
remove_disconnected_skipped(conns, d) == conns

\* broadcast's removal pass over its list "disconnected"
RECURSIVE remove_disconnected(_, _)
remove_disconnected(conns, d) ==
    IF d = <<>> THEN conns
    ELSE remove_disconnected(
             IF InList(Head(d), conns) THEN Remove(conns, Head(d)) ELSE conns,
             Tail(d))

\* ---- lifespan -----------------------------------------------------------
\* "await init_db()" is entered
lifespan_startup ==
    /\ UNCHANGED <<elsewhere, ws_event, initial_event>>
    /\ lifespan_pc = "start"
    /\ lifespan_pc' = "init_db"
    /\ UNCHANGED <<background_task_running, collector_vars, cleanup_vars,
                   cancel_vars, registry_vars, ws_pc, store, now>>

\* (variant: the tasks are created before the outcome of init_db is known)
lifespan_init_db_done_tasks_first ==
    /\ UNCHANGED <<elsewhere, ws_event, initial_event>>
    /\ lifespan_pc = "init_db"
    /\ \E ok \in BOOLEAN : lifespan_pc' = IF ok THEN "yield" ELSE "raised"
    /\ collector_pc' = "created"
    /\ cleanup_pc' = "created"
    /\ UNCHANGED <<background_task_running, send_idx, disconnected, last_tick,
                   tick_parity, bcast_hist, metrics, message, cutoff, victims,
                   last_sweep, swept,
                   cancel_vars, registry_vars, ws_pc, store, now>>

\* init_db() returns or raises; on return both tasks are created and the
\* context manager yields, on a raise lifespan propagates the error
lifespan_init_db_done ==
    /\ UNCHANGED <<elsewhere, ws_event, initial_event>>
    /\ lifespan_pc = "init_db"
    /\ \E ok \in BOOLEAN :
          IF ok
          THEN /\ lifespan_pc' = "yield"
               /\ collector_pc' = "created"
               /\ cleanup_pc' = "created"
          ELSE /\ lifespan_pc' = "raised"
               /\ UNCHANGED <<collector_pc, cleanup_pc>>
    /\ UNCHANGED <<background_task_running, send_idx, disconnected, last_tick,
                   tick_parity, bcast_hist, metrics, message, cutoff, victims,
                   last_sweep, swept, cancel_vars,
                   registry_vars,
                   ws_pc, store, now>>

\* A task that is finished ignores cancel()
cancel_request(pc) == pc \notin {"finished", "cancelled"}

\* Shutdown: the flag is cleared, both tasks are cancelled and lifespan
\* suspends on "await collector_task".  The event loop runs the first step of
\* both created tasks (in creation order) before it can deliver a shutdown
\* event to lifespan, so neither task is still "created" here.
lifespan_shutdown ==
    /\ UNCHANGED <<elsewhere, ws_event, initial_event>>
    /\ lifespan_pc = "yield"
    /\ collector_pc # "created" /\ cleanup_pc # "created"
    /\ background_task_running' = FALSE
    /\ collector_cancel' = cancel_request(collector_pc)
    /\ cleanup_cancel' = cancel_request(cleanup_pc)
    /\ lifespan_pc' = "await_collector"
    /\ UNCHANGED <<collector_vars, cleanup_vars, registry_vars, ws_pc,
                   store, now>>

\* (variant: the CancelledError of the awaited task is not caught)
await_task_unhandled(ended, next) ==
    IF ended = "cancelled" THEN "raised" ELSE next

\* "try: await task / except CancelledError: pass": where lifespan goes on,
\* given the way the awaited task ended
await_task(ended, next) == next

lifespan_await_collector ==
    /\ UNCHANGED <<elsewhere, ws_event, initial_event>>
    /\ lifespan_pc = "await_collector"
    /\ collector_pc \in {"finished", "cancelled"}
    /\ lifespan_pc' = await_task(collector_pc, "await_cleanup")
    /\ UNCHANGED <<background_task_running, collector_vars, cleanup_vars,
                   cancel_vars, registry_vars, ws_pc, store, now>>

lifespan_await_cleanup ==
    /\ UNCHANGED <<elsewhere, ws_event, initial_event>>
    /\ lifespan_pc = "await_cleanup"
    /\ cleanup_pc \in {"finished", "cancelled"}
    /\ lifespan_pc' = await_task(cleanup_pc, "exit")
    /\ UNCHANGED <<background_task_running, collector_vars, cleanup_vars,
                   cancel_vars, registry_vars, ws_pc, store, now>>

\* ---- broadcast (called from the sampling tick) ----------------------------
\* result of the removal pass, with the bookkeeping of who removed a handle
pruned_by_broadcast(conns, d) ==
    [h \in Handles |-> IF InList(h, conns) /\ InList(h, d)
                       THEN "broadcast" ELSE removed_by[h]]

\* the call returns to the tick, which reads connection_count and sleeps
broadcast_returns ==
    /\ collector_pc' = "sleep"
    /\ last_tick' = "ok"
    /\ send_idx' = 0
    /\ message' = None

\* (variant: the event carries readings taken anew when it is built)
update_event_requeried(m, t) ==
    [type |-> "metrics", data |-> collect_metrics(system, settings),
     timestamp |-> t]

\* the dict the tick passes to broadcast: the snapshot under "data", with
\* the type of the event and the time of the call
update_event(m, t) == [type |-> "metrics", data |-> m, timestamp |-> t]

\* message = json.dumps(data): the text that carries the dict
json_dumps(data) == <<data>>

\* manager.broadcast(...) is invoked with the registry conns
broadcast_invoked ==
    /\ bcast_at_call' = Range(active_connections)
    /\ IF active_connections = <<>>
       THEN \* "if not self.active_connections: return"
            /\ broadcast_returns
            /\ bcast_at_pass' = {}
            /\ UNCHANGED <<lock_locked, lock_waiters>>
       ELSE IF LockFree
       THEN /\ message' = json_dumps(update_event(metrics[1], now))
            /\ lock_locked' = TRUE
            /\ collector_pc' = "send"
            /\ send_idx' = 1
            /\ bcast_at_pass' = Range(active_connections)
            /\ UNCHANGED <<lock_waiters, last_tick>>
       ELSE /\ message' = json_dumps(update_event(metrics[1], now))
            /\ lock_waiters' = Append(lock_waiters, Collector)
            /\ collector_pc' = "lock"
            /\ bcast_at_pass' = {}
            /\ UNCHANGED <<lock_locked, send_idx, last_tick>>
    /\ UNCHANGED <<active_connections, removed_by, disconnected,
                   bcast_attempted, bcast_failed>>

\* ---- collect_and_store_metrics --------------------------------------------
\* (variant: the tick does not await its broadcast, so that the next tick can
\* begin while the broadcast still queues for the registry lock)
collector_loop_top_not_awaiting ==
    /\ UNCHANGED <<elsewhere, ws_event, initial_event>>
    /\ collector_pc \in {"created", "sleep", "lock"}
    /\ ~collector_cancel
    /\ background_task_running' =
          IF collector_pc = "created" THEN TRUE ELSE background_task_running
    /\ IF background_task_running'
       THEN /\ tick_parity' = 1 - tick_parity
            /\ \E collected \in BOOLEAN :
                  IF collected
                  THEN /\ metrics' = <<collect_metrics(system, settings)>>
                       /\ collector_pc' = "commit"
                       /\ UNCHANGED last_tick
                  ELSE /\ collector_pc' = "sleep"
                       /\ last_tick' = "failed"
                       /\ UNCHANGED metrics
       ELSE /\ collector_pc' = "finished"
            /\ UNCHANGED <<tick_parity, last_tick, metrics>>
    /\ UNCHANGED message
    /\ send_idx' = 0
    /\ disconnected' = <<>>
    /\ bcast_at_call' = {}
    /\ bcast_at_pass' = {}
    /\ bcast_attempted' = {}
    /\ bcast_failed' = {}
    /\ UNCHANGED <<lifespan_pc, cleanup_vars, cancel_vars,
                   registry_vars, ws_pc, store, now>>

\* Loop top, reached on the task's first step and when a sleep ends: the flag
\* is tested and a tick starts with collect_metrics(), which returns or raises
collector_loop_top ==
    /\ UNCHANGED <<elsewhere, ws_event, initial_event>>
    /\ collector_pc \in {"created", "sleep"}
    /\ ~collector_cancel
    /\ background_task_running' =
          IF collector_pc = "created" THEN TRUE ELSE background_task_running
    /\ IF background_task_running'
       THEN /\ tick_parity' = 1 - tick_parity
            /\ \E collected \in BOOLEAN :
                  IF collected
                  THEN /\ metrics' = <<collect_metrics(system, settings)>>
                       /\ collector_pc' = "commit"
                       /\ UNCHANGED last_tick
                  ELSE /\ collector_pc' = "sleep"
                       /\ last_tick' = "failed"
                       /\ UNCHANGED metrics
       ELSE /\ collector_pc' = "finished"
            /\ UNCHANGED <<tick_parity, last_tick, metrics>>
    /\ UNCHANGED message
    /\ send_idx' = 0
    /\ disconnected' = <<>>
    /\ bcast_at_call' = {}
    /\ bcast_at_pass' = {}
    /\ bcast_attempted' = {}
    /\ bcast_failed' = {}
    /\ UNCHANGED <<lifespan_pc, cleanup_vars, cancel_vars,
                   registry_vars, ws_pc, store, now>>

\* (variant: the two memory columns are filled the wrong way round)
Metric_columns_swapped(m, t) ==
    [timestamp |-> t,
     cpu_percent |-> m.cpu_percent,
     ram_percent |-> m.ram_percent,
     ram_used_gb |-> m.ram_total_gb,
     ram_total_gb |-> m.ram_used_gb,
     disk_percent |-> m.disk_percent,
     disk_used_gb |-> m.disk_used_gb,
     disk_total_gb |-> m.disk_total_gb,
     cpu_temp |-> m.cpu_temp,
     uptime_seconds |-> m.uptime_seconds]

\* Metric(cpu_percent=metrics["cpu_percent"], ...): the row the tick adds to
\* the session; its timestamp is the server's time when the INSERT runs
Metric(m, t) ==
    [timestamp |-> t,
     cpu_percent |-> m.cpu_percent,
     ram_percent |-> m.ram_percent,
     ram_used_gb |-> m.ram_used_gb,
     ram_total_gb |-> m.ram_total_gb,
     disk_percent |-> m.disk_percent,
     disk_used_gb |-> m.disk_used_gb,
     disk_total_gb |-> m.disk_total_gb,
     cpu_temp |-> m.cpu_temp,
     uptime_seconds |-> m.uptime_seconds]

\* the INSERT reaches the table
row_inserted == store' = store \cup {Metric(metrics[1], now)}

\* (variant: an error of the commit leaves the loop and ends the task)
collector_commit_done_unhandled ==
    /\ UNCHANGED <<elsewhere, ws_event, initial_event>>
    /\ collector_pc = "commit"
    /\ ~collector_cancel
    /\ \E ok \in BOOLEAN :
          IF ok
          THEN /\ row_inserted
               /\ broadcast_invoked
          ELSE /\ collector_pc' = "finished"
               /\ last_tick' = "failed"
               /\ UNCHANGED <<store, send_idx, disconnected, bcast_hist,
                              registry_vars, message>>
    /\ UNCHANGED <<lifespan_pc, background_task_running, tick_parity, metrics,
                   cleanup_vars, cancel_vars, ws_pc, now>>

\* (variant: the store block has its own error handler and the broadcast
\* follows whether or not the commit succeeded)
collector_commit_done_broadcasts_anyway ==
    /\ UNCHANGED <<elsewhere, ws_event, initial_event>>
    /\ collector_pc = "commit"
    /\ ~collector_cancel
    /\ \E ok \in BOOLEAN :
          /\ IF ok THEN row_inserted ELSE UNCHANGED store
          /\ broadcast_invoked
    /\ UNCHANGED <<lifespan_pc, background_task_running, tick_parity, metrics,
                   cleanup_vars, cancel_vars, ws_pc, now>>

\* session.commit() returns or raises; on return the row is stored and the
\* tick goes on to broadcast
collector_commit_done ==
    /\ UNCHANGED <<elsewhere, ws_event, initial_event>>
    /\ collector_pc = "commit"
    /\ ~collector_cancel
    /\ \E ok \in BOOLEAN :
          IF ok
          THEN /\ row_inserted
               /\ broadcast_invoked
          ELSE /\ collector_pc' = "sleep"
               /\ last_tick' = "failed"
               /\ UNCHANGED <<store, send_idx, disconnected, bcast_hist,
                              registry_vars, message>>
    /\ UNCHANGED <<lifespan_pc, background_task_running, tick_parity, metrics,
                   cleanup_vars, cancel_vars, ws_pc, now>>

\* the queued broadcast gets the lock and starts its delivery pass
broadcast_lock_acquired ==
    /\ UNCHANGED <<elsewhere, ws_event, initial_event>>
    /\ collector_pc = "lock"
    /\ ~collector_cancel
    /\ Woken(Collector)
    /\ lock_waiters' = Tail(lock_waiters)
    /\ bcast_at_pass' = Range(active_connections)
    /\ IF active_connections = <<>>
       THEN broadcast_returns /\ UNCHANGED lock_locked
       ELSE /\ lock_locked' = TRUE
            /\ collector_pc' = "send"
            /\ send_idx' = 1
            /\ UNCHANGED <<last_tick, message>>
    /\ UNCHANGED <<lifespan_pc, background_task_running, disconnected, metrics,
                   bcast_at_call, bcast_attempted, bcast_failed, tick_parity,
                   active_connections, removed_by,
                   cleanup_vars, cancel_vars, ws_pc, store, now>>

\* (variant: the first send that raises ends the delivery pass)
broadcast_send_done_aborting ==
    /\ UNCHANGED <<elsewhere, ws_event, initial_event>>
    /\ collector_pc = "send"
    /\ ~collector_cancel
    /\ \E ok \in BOOLEAN :
          LET h == active_connections[send_idx]
              d == IF ok THEN disconnected ELSE Append(disconnected, h)
          IN  /\ bcast_attempted' = bcast_attempted \cup {h}
              /\ bcast_failed' = IF ok THEN bcast_failed
                                 ELSE bcast_failed \cup {h}
              /\ disconnected' = d
              /\ IF ok /\ send_idx < Len(active_connections)
                 THEN /\ send_idx' = send_idx + 1
                      /\ UNCHANGED <<collector_pc, last_tick, lock_locked,
                                     active_connections, removed_by, message>>
                 ELSE /\ active_connections' =
                             remove_disconnected(active_connections, d)
                      /\ removed_by' = pruned_by_broadcast(active_connections, d)
                      /\ lock_locked' = FALSE
                      /\ broadcast_returns
    /\ UNCHANGED <<lifespan_pc, background_task_running, bcast_at_call,
                   bcast_at_pass, tick_parity, lock_waiters, metrics,
                   cleanup_vars, cancel_vars, ws_pc, store, now>>

\* connection.send_text(message) returns or raises; after the last element
\* the removal pass runs, the lock is released and broadcast returns
broadcast_send_done ==
    /\ UNCHANGED <<elsewhere, ws_event, initial_event>>
    /\ collector_pc = "send"
    /\ ~collector_cancel
    /\ \E ok \in BOOLEAN :
          LET h == active_connections[send_idx]
              d == IF ok THEN disconnected ELSE Append(disconnected, h)
          IN  /\ bcast_attempted' = bcast_attempted \cup {h}
              /\ bcast_failed' = IF ok THEN bcast_failed
                                 ELSE bcast_failed \cup {h}
              /\ disconnected' = d
              /\ IF send_idx < Len(active_connections)
                 THEN /\ send_idx' = send_idx + 1
                      /\ UNCHANGED <<collector_pc, last_tick, lock_locked,
                                     active_connections, removed_by, message>>
                 ELSE /\ active_connections' =
                             remove_disconnected(active_connections, d)
                      /\ removed_by' = pruned_by_broadcast(active_connections, d)
                      /\ lock_locked' = FALSE
                      /\ broadcast_returns
    /\ UNCHANGED <<lifespan_pc, background_task_running, bcast_at_call,
                   bcast_at_pass, tick_parity, lock_waiters, metrics,
                   cleanup_vars, cancel_vars, ws_pc, store, now>>

\* CancelledError is raised at the await the task is suspended on and leaves
\* the coroutine: "async with" releases the lock or the session on the way
\* out.  A commit that was under way may or may not have reached the store.
collector_cancelled ==
    /\ UNCHANGED <<elsewhere, ws_event, initial_event>>
    /\ collector_cancel
    /\ collector_pc \in {"created", "commit", "lock", "send", "sleep"}
    /\ collector_pc' = "cancelled"
    /\ lock_locked' = IF collector_pc = "send" THEN FALSE ELSE lock_locked
    /\ lock_waiters' = IF collector_pc = "lock"
                       THEN RemoveFromQueue(lock_waiters, Collector)
                       ELSE lock_waiters
    /\ IF collector_pc = "commit"
       THEN row_inserted \/ UNCHANGED store
       ELSE UNCHANGED store
    /\ message' = None
    /\ UNCHANGED <<lifespan_pc, background_task_running, send_idx,
                   disconnected, last_tick, tick_parity, bcast_hist, metrics,
                   active_connections, removed_by, cleanup_vars, cancel_vars,
                   ws_pc, now>>

\* ---- cleanup_old_metrics --------------------------------------------------
\* (variant: the comparison is turned around)
delete_where_newer(rows, c) == {r \in rows : r.timestamp > c}

\* (variant: the comparison is not strict)
delete_where_inclusive(rows, c) == {r \in rows : r.timestamp =< c}

\* rows the statement "DELETE ... WHERE timestamp < cutoff" matches
delete_where(rows, c) == {r \in rows : r.timestamp < c}

\* (variant: the sweeper's first step may come before the collector's, as it
\* would if the two create_task calls were exchanged)
cleanup_loop_top_any_order ==
    /\ UNCHANGED <<elsewhere, ws_event, initial_event>>
    /\ cleanup_pc \in {"created", "sleep"}
    /\ ~cleanup_cancel
    /\ IF background_task_running
       THEN /\ cutoff' = now - history_retention_hours
            /\ cleanup_pc' = "execute"
       ELSE /\ cleanup_pc' = "finished"
            /\ UNCHANGED cutoff
    /\ swept' = {}
    /\ UNCHANGED <<lifespan_pc, background_task_running, victims, last_sweep,
                   collector_vars, cancel_vars, registry_vars,
                   ws_pc, store, now>>

\* Loop top, on the task's first step and when a sleep ends.  Tasks start in
\* creation order, so the first step comes after the collector's.
cleanup_loop_top ==
    /\ UNCHANGED <<elsewhere, ws_event, initial_event>>
    /\ cleanup_pc \in {"created", "sleep"}
    /\ cleanup_pc = "created" => collector_pc # "created"
    /\ ~cleanup_cancel
    /\ IF background_task_running
       THEN /\ cutoff' = now - history_retention_hours
            /\ cleanup_pc' = "execute"
       ELSE /\ cleanup_pc' = "finished"
            /\ UNCHANGED cutoff
    /\ swept' = {}
    /\ UNCHANGED <<lifespan_pc, background_task_running, victims, last_sweep,
                   collector_vars, cancel_vars, registry_vars,
                   ws_pc, store, now>>

\* session.execute(stmt) returns or raises
cleanup_execute_done ==
    /\ UNCHANGED <<elsewhere, ws_event, initial_event>>
    /\ cleanup_pc = "execute"
    /\ ~cleanup_cancel
    /\ \E ok \in BOOLEAN :
          IF ok
          THEN /\ victims' = delete_where(store, cutoff)
               /\ cleanup_pc' = "commit"
               /\ UNCHANGED last_sweep
          ELSE /\ cleanup_pc' = "sleep"
               /\ last_sweep' = "failed"
               /\ UNCHANGED victims
    /\ UNCHANGED <<lifespan_pc, background_task_running, cutoff, swept,
                   collector_vars, cancel_vars, registry_vars,
                   ws_pc, store, now>>

\* (variant: an error of the sweep's commit leaves the loop and ends the task)
cleanup_commit_done_unhandled ==
    /\ UNCHANGED <<elsewhere, ws_event, initial_event>>
    /\ cleanup_pc = "commit"
    /\ ~cleanup_cancel
    /\ \E ok \in BOOLEAN :
          IF ok
          THEN /\ store' = store \ victims /\ last_sweep' = "ok"
               /\ swept' = victims
               /\ cleanup_pc' = "sleep"
          ELSE /\ UNCHANGED store /\ last_sweep' = "failed" /\ swept' = {}
               /\ cleanup_pc' = "finished"
    /\ victims' = {}
    /\ UNCHANGED <<lifespan_pc, background_task_running, cutoff,
                   collector_vars,
                   cancel_vars, registry_vars, ws_pc, now>>

\* session.commit() returns (the matched rows are gone) or raises (rollback)
cleanup_commit_done ==
    /\ UNCHANGED <<elsewhere, ws_event, initial_event>>
    /\ cleanup_pc = "commit"
    /\ ~cleanup_cancel
    /\ \E ok \in BOOLEAN :
          IF ok
          THEN store' = store \ victims /\ last_sweep' = "ok"
                                        /\ swept' = victims
          ELSE UNCHANGED store /\ last_sweep' = "failed" /\ swept' = {}
    /\ victims' = {}
    /\ cleanup_pc' = "sleep"
    /\ UNCHANGED <<lifespan_pc, background_task_running, cutoff,
                   collector_vars,
                   cancel_vars, registry_vars, ws_pc, now>>

\* CancelledError at the await the task is suspended on; a commit under way
\* may or may not have reached the store
cleanup_cancelled ==
    /\ UNCHANGED <<elsewhere, ws_event, initial_event>>
    /\ cleanup_cancel
    /\ cleanup_pc \in {"created", "execute", "commit", "sleep"}
    /\ cleanup_pc' = "cancelled"
    /\ IF cleanup_pc = "commit"
       THEN store' \in {store, store \ victims}
       ELSE UNCHANGED store
    /\ victims' = {}
    /\ UNCHANGED <<lifespan_pc, background_task_running, cutoff, last_sweep,
                   swept, collector_vars, cancel_vars,
                   registry_vars, ws_pc, now>>

\* ---- the clock ------------------------------------------------------------
clock_advance ==
    /\ UNCHANGED <<elsewhere, ws_event, initial_event>>
    /\ now + ClockStep <= MaxTime
    /\ now' = now + ClockStep
    /\ UNCHANGED <<lifespan_pc, background_task_running, collector_vars,
                   cleanup_vars, cancel_vars, registry_vars, ws_pc,
                   store>>

\* ---- GET /api/metrics/latest ------------------------------------------------
\* rows "ORDER BY timestamp DESC LIMIT 1" may return
order_by_timestamp_desc_limit_1(rows) ==
    {r \in rows : \A q \in rows : q.timestamp <= r.timestamp}

\* MetricResponse built from the attributes of the row (the id is left out
\* of the model)
MetricResponse(r) ==
    [timestamp |-> r.timestamp,
     cpu_percent |-> r.cpu_percent,
     ram_percent |-> r.ram_percent,
     ram_used_gb |-> r.ram_used_gb,
     ram_total_gb |-> r.ram_total_gb,
     disk_percent |-> r.disk_percent,
     disk_used_gb |-> r.disk_used_gb,
     disk_total_gb |-> r.disk_total_gb,
     cpu_temp |-> r.cpu_temp,
     uptime_seconds |-> r.uptime_seconds]

\* a request is served while the application runs: 404 when the table is
\* empty, else the most recent row
get_latest_metric ==
    /\ lifespan_pc = "yield"
    /\ LET found == order_by_timestamp_desc_limit_1(store)
       IN  IF found = {}
           THEN latest_response' = [status |-> 404, body |-> None]
           ELSE \E r \in found :
                   latest_response' = [status |-> 200,
                                       body |-> <<MetricResponse(r)>>]
    /\ UNCHANGED <<alert_vars, system, ws_event, initial_event, timed_vars>>
    /\ UNCHANGED <<lifespan_pc, background_task_running, collector_vars,
                   cleanup_vars, cancel_vars, registry_vars, ws_pc, store,
                   now>>

\* ---- websocket_endpoint ---------------------------------------------------
\* "finally: await manager.disconnect(websocket)" entered with the registry
\* conns and the lock queue waiters
finally_disconnect(h, conns, waiters) ==
    IF ~lock_locked /\ waiters = <<>>
    THEN LET r == disconnect_body(conns, h)
         IN  /\ active_connections' = r.conns
             /\ ws_pc' = [ws_pc EXCEPT ![h] =
                             IF r.raised THEN "error" ELSE "closed"]
             /\ removed_by' = [removed_by EXCEPT ![h] =
                                 IF InList(h, conns) THEN "disconnect" ELSE @]
             /\ lock_waiters' = waiters
    ELSE /\ lock_waiters' = Append(waiters, h)
         /\ ws_pc' = [ws_pc EXCEPT ![h] = "lock_disconnect"]
         /\ active_connections' = conns
         /\ UNCHANGED removed_by

\* (variant: the endpoint sends the snapshot of the last tick, when there is
\* one, instead of collecting)
registered_cached(h, waiters) ==
    \E collected \in BOOLEAN :
        IF collected
        THEN /\ active_connections' = connect_append(active_connections, h)
             /\ ws_pc' = [ws_pc EXCEPT ![h] = "initial_send"]
             /\ initial_event' = [initial_event EXCEPT ![h] =
                    <<update_event(IF metrics = None
                                   THEN collect_metrics(system, settings)
                                   ELSE metrics[1], now)>>]
             /\ lock_waiters' = waiters
             /\ UNCHANGED removed_by
        ELSE /\ finally_disconnect(h, connect_append(active_connections, h),
                                   waiters)
             /\ UNCHANGED initial_event

\* connect's body under the lock, then the endpoint up to its first await:
\* collect_metrics() returns and send_json is awaited, or it raises
registered(h, waiters) ==
    \E collected \in BOOLEAN :
        IF collected
        THEN /\ active_connections' = connect_append(active_connections, h)
             /\ ws_pc' = [ws_pc EXCEPT ![h] = "initial_send"]
             /\ initial_event' = [initial_event EXCEPT ![h] =
                    <<update_event(collect_metrics(system, settings), now)>>]
             /\ lock_waiters' = waiters
             /\ UNCHANGED removed_by
        ELSE /\ finally_disconnect(h, connect_append(active_connections, h),
                                   waiters)
             /\ UNCHANGED initial_event

others_unchanged ==
    UNCHANGED <<lifespan_pc, background_task_running, collector_vars,
                cleanup_vars, cancel_vars, lock_locked, store, now,
                elsewhere>>

\* a viewer opens a websocket while the application serves requests; the
\* endpoint calls manager.connect, which awaits websocket.accept()
ws_open(h) ==
    /\ UNCHANGED <<ws_event, initial_event>>
    /\ lifespan_pc = "yield"
    /\ ws_pc[h] = "idle"
    /\ \A j \in Handles : j < h => ws_pc[j] # "idle"
    /\ ws_pc' = [ws_pc EXCEPT ![h] = "accept"]
    /\ UNCHANGED <<active_connections, lock_waiters, removed_by>>
    /\ others_unchanged

\* (variant: connect appends without taking the lock)
connect_lock_ignored(h) ==
    /\ UNCHANGED ws_event
    /\ ws_pc[h] = "accept"
    /\ \E ok \in BOOLEAN :
          IF ok
          THEN registered(h, lock_waiters)
          ELSE /\ ws_pc' = [ws_pc EXCEPT ![h] = "rejected"]
               /\ UNCHANGED <<active_connections, lock_waiters, removed_by,
                              initial_event>>
    /\ others_unchanged

\* accept() returns or raises (connect is outside the endpoint's try); on
\* return connect takes the lock or queues for it
connect(h) ==
    /\ UNCHANGED ws_event
    /\ ws_pc[h] = "accept"
    /\ \E ok \in BOOLEAN :
          IF ok
          THEN IF LockFree
               THEN registered(h, lock_waiters)
               ELSE /\ lock_waiters' = Append(lock_waiters, h)
                    /\ ws_pc' = [ws_pc EXCEPT ![h] = "lock_connect"]
                    /\ UNCHANGED <<active_connections, removed_by,
                                   initial_event>>
          ELSE /\ ws_pc' = [ws_pc EXCEPT ![h] = "rejected"]
               /\ UNCHANGED <<active_connections, lock_waiters, removed_by,
                              initial_event>>
    /\ others_unchanged

\* a queued connect or disconnect gets the lock
ws_lock_acquired(h) ==
    /\ UNCHANGED ws_event
    /\ ws_pc[h] \in {"lock_connect", "lock_disconnect"}
    /\ Woken(h)
    /\ IF ws_pc[h] = "lock_connect"
       THEN registered(h, Tail(lock_waiters))
       ELSE LET r == disconnect_body(active_connections, h)
            IN  /\ active_connections' = r.conns
                /\ ws_pc' = [ws_pc EXCEPT ![h] =
                                IF r.raised THEN "error" ELSE "closed"]
                /\ removed_by' = [removed_by EXCEPT ![h] =
                       IF InList(h, active_connections) THEN "disconnect" ELSE @]
                /\ lock_waiters' = Tail(lock_waiters)
                /\ UNCHANGED initial_event
    /\ others_unchanged

\* a send of the endpoint raised; text tells which ("metrics" for the
\* initial event)
send_failed(h, text) ==
    ws_event' = [ws_event EXCEPT ![h] = [kind |-> "send_failed", data |-> text]]

\* (variant: the unregistration is not in a finally clause, so that an error
\* of the initial send leaves the endpoint without it)
ws_initial_send_done_no_finally(h) ==
    /\ ws_pc[h] = "initial_send"
    /\ initial_event' = [initial_event EXCEPT ![h] = None]
    /\ \E ok \in BOOLEAN :
          /\ ws_pc' = [ws_pc EXCEPT ![h] = IF ok THEN "receive" ELSE "closed"]
          /\ IF ok THEN UNCHANGED ws_event ELSE send_failed(h, "metrics")
          /\ UNCHANGED <<active_connections, lock_waiters, removed_by>>
    /\ others_unchanged

\* the initial send_json returns or raises
ws_initial_send_done(h) ==
    /\ ws_pc[h] = "initial_send"
    /\ initial_event' = [initial_event EXCEPT ![h] = None]
    /\ \E ok \in BOOLEAN :
          IF ok
          THEN /\ ws_pc' = [ws_pc EXCEPT ![h] = "receive"]
               /\ UNCHANGED <<active_connections, lock_waiters, removed_by,
                              ws_event>>
          ELSE /\ send_failed(h, "metrics")
               /\ finally_disconnect(h, active_connections, lock_waiters)
    /\ others_unchanged

\* how a heartbeat wait may end: a text of the viewer, the timeout, or the
\* viewer going away
WaitOutcomes ==
    {[kind |-> "text", data |-> d] : d \in InboundTexts}
    \cup {[kind |-> "timeout", data |-> ""], [kind |-> "disconnect", data |-> ""]}

\* (variant: the timeout of the wait is ignored and the loop waits again)
ws_receive_done_silent_timeout(h) ==
    /\ ws_pc[h] = "receive"
    /\ UNCHANGED initial_event
    /\ \E ev \in WaitOutcomes :
          /\ ws_event' = [ws_event EXCEPT ![h] = ev]
          /\ CASE ev.kind = "text" /\ ev.data = "ping" ->
                 /\ ws_pc' = [ws_pc EXCEPT ![h] = "send_pong"]
                 /\ UNCHANGED <<active_connections, lock_waiters, removed_by>>
            [] ev.kind = "text" /\ ev.data # "ping" ->
                 UNCHANGED <<ws_pc, active_connections, lock_waiters,
                             removed_by>>
            [] ev.kind = "timeout" ->
                 UNCHANGED <<ws_pc, active_connections, lock_waiters,
                             removed_by>>
            [] ev.kind = "disconnect" ->
                 finally_disconnect(h, active_connections, lock_waiters)
    /\ others_unchanged

\* (variant: the test of the text ignores its case)
ws_receive_done_any_case(h) ==
    /\ ws_pc[h] = "receive"
    /\ UNCHANGED initial_event
    /\ \E ev \in WaitOutcomes :
          /\ ws_event' = [ws_event EXCEPT ![h] = ev]
          /\ CASE ev.kind = "text" /\ ev.data \in {"ping", "PING"} ->
                 /\ ws_pc' = [ws_pc EXCEPT ![h] = "send_pong"]
                 /\ UNCHANGED <<active_connections, lock_waiters, removed_by>>
            [] ev.kind = "text" /\ ev.data \notin {"ping", "PING"} ->
                 UNCHANGED <<ws_pc, active_connections, lock_waiters,
                             removed_by>>
            [] ev.kind = "timeout" ->
                 /\ ws_pc' = [ws_pc EXCEPT ![h] = "send_ping"]
                 /\ UNCHANGED <<active_connections, lock_waiters, removed_by>>
            [] ev.kind = "disconnect" ->
                 finally_disconnect(h, active_connections, lock_waiters)
    /\ others_unchanged

\* wait_for(receive_text(), timeout) ends: a message, the timeout, or
\* WebSocketDisconnect / another error
ws_receive_done(h) ==
    /\ ws_pc[h] = "receive"
    /\ UNCHANGED initial_event
    /\ \E ev \in WaitOutcomes :
          /\ ws_event' = [ws_event EXCEPT ![h] = ev]
          /\ CASE ev.kind = "text" /\ ev.data = "ping" ->
                 /\ ws_pc' = [ws_pc EXCEPT ![h] = "send_pong"]
                 /\ UNCHANGED <<active_connections, lock_waiters, removed_by>>
            [] ev.kind = "text" /\ ev.data # "ping" ->
                 UNCHANGED <<ws_pc, active_connections, lock_waiters,
                             removed_by>>
            [] ev.kind = "timeout" ->
                 /\ ws_pc' = [ws_pc EXCEPT ![h] = "send_ping"]
                 /\ UNCHANGED <<active_connections, lock_waiters, removed_by>>
            [] ev.kind = "disconnect" ->
                 finally_disconnect(h, active_connections, lock_waiters)
    /\ others_unchanged

\* send_text("pong") returns, or raises into the outer except
ws_pong_done(h) ==
    /\ ws_pc[h] = "send_pong"
    /\ UNCHANGED initial_event
    /\ \E ok \in BOOLEAN :
          IF ok
          THEN /\ ws_pc' = [ws_pc EXCEPT ![h] = "receive"]
               /\ UNCHANGED <<active_connections, lock_waiters, removed_by,
                              ws_event>>
          ELSE /\ send_failed(h, "pong")
               /\ finally_disconnect(h, active_connections, lock_waiters)
    /\ others_unchanged

\* (variant: a ping that cannot be sent is ignored and the loop waits again)
ws_ping_done_keeps_waiting(h) ==
    /\ ws_pc[h] = "send_ping"
    /\ UNCHANGED initial_event
    /\ \E ok \in BOOLEAN :
          /\ ws_pc' = [ws_pc EXCEPT ![h] = "receive"]
          /\ IF ok THEN UNCHANGED ws_event ELSE send_failed(h, "ping")
          /\ UNCHANGED <<active_connections, lock_waiters, removed_by>>
    /\ others_unchanged

\* send_text("ping") returns, or raises and the loop breaks
ws_ping_done(h) ==
    /\ ws_pc[h] = "send_ping"
    /\ UNCHANGED initial_event
    /\ \E ok \in BOOLEAN :
          IF ok
          THEN /\ ws_pc' = [ws_pc EXCEPT ![h] = "receive"]
               /\ UNCHANGED <<active_connections, lock_waiters, removed_by,
                              ws_event>>
          ELSE /\ send_failed(h, "ping")
               /\ finally_disconnect(h, active_connections, lock_waiters)
    /\ others_unchanged

\* ---- the sampling loop against the clock ------------------------------------
\* The run the cadence is measured on: no viewer connects and no tick fails,
\* so that a tick is collect_metrics(), the commit of its row and a broadcast
\* that returns at once.  A step that is due is taken before time passes.
timed_frame ==
    UNCHANGED <<alert_vars, system, latest_response, ws_event, initial_event,
                interval, run_for, cleanup_vars, registry_vars, ws_pc, now>>

\* the loop top on the task's first step and when the sleep is over: a tick
\* begins and takes d until its commit returns
timed_loop_top ==
    /\ collector_pc \in {"created", "sleep"}
    /\ ~collector_cancel
    /\ elapsed = due
    /\ background_task_running' =
          IF collector_pc = "created" THEN TRUE ELSE background_task_running
    /\ background_task_running'
    /\ tick_parity' = 1 - tick_parity
    /\ metrics' = <<collect_metrics(system, settings)>>
    /\ collector_pc' = "commit"
    /\ \E d \in TickDurations : due' = elapsed + d
    /\ send_idx' = 0
    /\ disconnected' = <<>>
    /\ bcast_at_call' = {}
    /\ bcast_at_pass' = {}
    /\ bcast_attempted' = {}
    /\ bcast_failed' = {}
    /\ UNCHANGED <<lifespan_pc, cancel_vars, last_tick, message, store,
                   elapsed, rows_committed>>
    /\ timed_frame

\* session.commit() returns: the row is stored, the broadcast finds no viewer
\* and returns, and sleep(collection_interval) begins
timed_commit_done ==
    /\ collector_pc = "commit"
    /\ ~collector_cancel
    /\ elapsed = due
    /\ active_connections = <<>>
    /\ row_inserted
    /\ rows_committed' = rows_committed + 1
    /\ collector_pc' = "sleep"
    /\ last_tick' = "ok"
    /\ send_idx' = 0
    /\ message' = None
    /\ bcast_at_call' = {}
    /\ bcast_at_pass' = {}
    /\ due' = elapsed + interval
    /\ UNCHANGED <<lifespan_pc, background_task_running, cancel_vars,
                   tick_parity, metrics, disconnected, bcast_attempted,
                   bcast_failed, elapsed>>
    /\ timed_frame

\* a tenth of a second passes while the application runs, both tasks have
\* taken their first step and the sampling task waits for its commit or in
\* its sleep
time_passes ==
    /\ lifespan_pc = "yield"
    /\ collector_pc \in {"commit", "sleep"}
    /\ cleanup_pc # "created"
    /\ elapsed < due
    /\ elapsed < run_for
    /\ elapsed' = elapsed + 1
    /\ UNCHANGED <<lifespan_pc, background_task_running, collector_vars,
                   cancel_vars, store, due, rows_committed>>
    /\ timed_frame

\* the stop is requested run_for after the launch: lifespan clears the flag,
\* cancels both tasks and awaits the sampling task
timed_shutdown ==
    /\ lifespan_pc = "yield"
    /\ collector_pc # "created" /\ cleanup_pc # "created"
    /\ elapsed = run_for
    /\ background_task_running' = FALSE
    /\ collector_cancel' = cancel_request(collector_pc)
    /\ cleanup_cancel' = cancel_request(cleanup_pc)
    /\ lifespan_pc' = "await_collector"
    /\ UNCHANGED <<collector_vars, store, elapsed, due, rows_committed>>
    /\ timed_frame

\* CancelledError at the await the sampling task is in; a commit under way
\* may or may not have reached the store
timed_cancelled ==
    /\ collector_cancel
    /\ collector_pc \in {"commit", "sleep"}
    /\ collector_pc' = "cancelled"
    /\ IF collector_pc = "commit"
       THEN \/ row_inserted /\ rows_committed' = rows_committed + 1
            \/ UNCHANGED <<store, rows_committed>>
       ELSE UNCHANGED <<store, rows_committed>>
    /\ message' = None
    /\ UNCHANGED <<lifespan_pc, background_task_running, cancel_vars,
                   send_idx, disconnected, last_tick, tick_parity, bcast_hist,
                   metrics, elapsed, due>>
    /\ timed_frame

\* the state of the process when the interpreter has loaded the modules
program_start ==
    /\ lifespan_pc = "start"
    /\ background_task_running = FALSE
    /\ collector_pc = "none"
    /\ collector_cancel = FALSE
    /\ cleanup_pc = "none"
    /\ cleanup_cancel = FALSE
    /\ active_connections = <<>>
    /\ lock_locked = FALSE
    /\ lock_waiters = <<>>
    /\ ws_pc = [h \in Handles |-> "idle"]
    /\ send_idx = 0
    /\ disconnected = <<>>
    /\ store = {}
    /\ now = 0
    /\ cutoff = 0
    /\ victims = {}
    /\ bcast_at_call = {}
    /\ bcast_at_pass = {}
    /\ bcast_attempted = {}
    /\ bcast_failed = {}
    /\ removed_by = [h \in Handles |-> "none"]
    /\ last_tick = "none"
    /\ tick_parity = 0
    /\ last_sweep = "none"
    /\ swept = {}
    /\ system = reading_busy
    /\ metrics = None
    /\ message = None
    /\ latest_response = [status |-> 0, body |-> None]
    /\ ws_event = [h \in Handles |-> [kind |-> "none", data |-> ""]]
    /\ initial_event = [h \in Handles |-> None]

\* the thresholds are those of config.py; the evaluator is about to be called
\* with the readings of the documented example
\* the clock is not observed
untimed ==
    /\ interval = collection_interval * 10
    /\ run_for = 0
    /\ elapsed = 0
    /\ due = 0
    /\ rows_committed = 0

Init ==
    /\ program_start
    /\ untimed
    /\ settings = default_settings
    /\ alert_input = [cpu_percent |-> 85, ram_percent |-> 50,
                      disk_percent |-> 95, cpu_temp |-> None]
    /\ alert_output = [returned |-> FALSE, alerts |-> <<>>]

\* any readings, and thresholds as the environment may override them
InitAlerts ==
    /\ program_start
    /\ untimed
    /\ settings \in [cpu_alert_threshold : CpuThresholds,
                      ram_alert_threshold : {ram_alert_threshold},
                      disk_alert_threshold : {disk_alert_threshold},
                      temp_alert_threshold : TempThresholds]
    /\ alert_input \in [cpu_percent : Percents, ram_percent : Percents,
                         disk_percent : Percents,
                         cpu_temp : {None} \cup {<<t>> : t \in Temperatures}]
    /\ alert_output = [returned |-> FALSE, alerts |-> <<>>]

Next ==
    \/ lifespan_startup
    \/ lifespan_init_db_done
    \/ lifespan_shutdown
    \/ lifespan_await_collector
    \/ lifespan_await_cleanup
    \/ collector_loop_top
    \/ collector_commit_done
    \/ broadcast_lock_acquired
    \/ broadcast_send_done
    \/ collector_cancelled
    \/ cleanup_loop_top
    \/ cleanup_execute_done
    \/ cleanup_commit_done
    \/ cleanup_cancelled
    \/ clock_advance
    \/ check_alerts_returns
    \/ system_changes
    \/ get_latest_metric
    \/ \E h \in Handles : ws_open(h)
    \/ \E h \in Handles : connect(h)
    \/ \E h \in Handles : ws_lock_acquired(h)
    \/ \E h \in Handles : ws_initial_send_done(h)
    \/ \E h \in Handles : ws_receive_done(h)
    \/ \E h \in Handles : ws_pong_done(h)
    \/ \E h \in Handles : ws_ping_done(h)

Spec == Init /\ [][Next]_vars

\* The registry side: the same program observed while the hour clock stands
\* still and the sweeper's DELETE statement is outstanding
NextRegistry ==
    \/ lifespan_startup
    \/ lifespan_init_db_done
    \/ lifespan_shutdown
    \/ lifespan_await_collector
    \/ lifespan_await_cleanup
    \/ collector_loop_top
    \/ collector_commit_done
    \/ broadcast_lock_acquired
    \/ broadcast_send_done
    \/ collector_cancelled
    \/ cleanup_loop_top
    \/ cleanup_cancelled
    \/ \E h \in Handles : ws_open(h)
    \/ \E h \in Handles : connect(h)
    \/ \E h \in Handles : ws_lock_acquired(h)
    \/ \E h \in Handles : ws_initial_send_done(h)
    \/ \E h \in Handles : ws_receive_done(h)
    \/ \E h \in Handles : ws_pong_done(h)
    \/ \E h \in Handles : ws_ping_done(h)

SpecRegistry == Init /\ [][NextRegistry]_vars

\* The life cycle: both tasks and the registry, observed while the hour clock
\* stands still and connected viewers stay silent
NextLife ==
    \/ lifespan_startup
    \/ lifespan_init_db_done
    \/ lifespan_shutdown
    \/ lifespan_await_collector
    \/ lifespan_await_cleanup
    \/ collector_loop_top
    \/ collector_commit_done
    \/ broadcast_lock_acquired
    \/ broadcast_send_done
    \/ collector_cancelled
    \/ cleanup_loop_top
    \/ cleanup_execute_done
    \/ cleanup_commit_done
    \/ cleanup_cancelled
    \/ \E h \in Handles : ws_open(h)
    \/ \E h \in Handles : connect(h)
    \/ \E h \in Handles : ws_lock_acquired(h)
    \/ \E h \in Handles : ws_initial_send_done(h)

SpecLife == Init /\ [][NextLife]_vars

\* The store side: the same program while no viewer connects
NextStore ==
    \/ lifespan_startup
    \/ lifespan_init_db_done
    \/ lifespan_shutdown
    \/ lifespan_await_collector
    \/ lifespan_await_cleanup
    \/ collector_loop_top
    \/ collector_commit_done
    \/ collector_cancelled
    \/ cleanup_loop_top
    \/ cleanup_execute_done
    \/ cleanup_commit_done
    \/ cleanup_cancelled
    \/ clock_advance

SpecStore == Init /\ [][NextStore]_vars

\* The sampling tick and its viewers: the load of the machine changes, the
\* hour clock stands still, the sweeper's DELETE statement is outstanding and
\* connected viewers stay silent
NextTick ==
    \/ lifespan_startup
    \/ lifespan_init_db_done
    \/ lifespan_shutdown
    \/ lifespan_await_collector
    \/ lifespan_await_cleanup
    \/ collector_loop_top
    \/ collector_commit_done
    \/ broadcast_lock_acquired
    \/ broadcast_send_done
    \/ collector_cancelled
    \/ cleanup_loop_top
    \/ cleanup_cancelled
    \/ system_changes
    \/ \E h \in Handles : ws_open(h)
    \/ \E h \in Handles : connect(h)
    \/ \E h \in Handles : ws_lock_acquired(h)
    \/ \E h \in Handles : ws_initial_send_done(h)

SpecTick == Init /\ [][NextTick]_vars

\* The history of samples: ticks write rows while the load changes and time
\* passes, and the latest row is asked for; no viewer connects and the
\* sweeper's DELETE statement is outstanding
NextHistory ==
    \/ lifespan_startup
    \/ lifespan_init_db_done
    \/ lifespan_shutdown
    \/ lifespan_await_collector
    \/ lifespan_await_cleanup
    \/ collector_loop_top
    \/ collector_commit_done
    \/ collector_cancelled
    \/ cleanup_loop_top
    \/ cleanup_cancelled
    \/ clock_advance
    \/ system_changes
    \/ get_latest_metric

SpecHistory == Init /\ [][NextHistory]_vars

\* The alert evaluator alone: one call on each input
NextAlerts ==
    \/ check_alerts_returns

SpecAlerts == InitAlerts /\ [][NextAlerts]_vars

\* The timed run: the application is started with an interval, runs for a
\* while and is stopped
InitCadence ==
    /\ program_start
    /\ settings = default_settings
    /\ alert_input = [cpu_percent |-> 85, ram_percent |-> 50,
                      disk_percent |-> 95, cpu_temp |-> None]
    /\ alert_output = [returned |-> FALSE, alerts |-> <<>>]
    /\ interval \in Intervals
    /\ run_for \in RunDurations
    /\ elapsed = 0
    /\ due = 0
    /\ rows_committed = 0

NextCadence ==
    \/ lifespan_startup
    \/ lifespan_init_db_done
    \/ timed_loop_top
    \/ timed_commit_done
    \/ time_passes
    \/ timed_shutdown
    \/ timed_cancelled
    \/ cleanup_loop_top
    \/ cleanup_cancelled
    \/ lifespan_await_collector
    \/ lifespan_await_cleanup

SpecCadence == InitCadence /\ [][NextCadence]_vars

\* ---- fairness: what the event loop and the environment guarantee -----------
\* A task whose await completed is resumed; timers fire; I/O calls end (by
\* returning or raising); a cancelled task is resumed with CancelledError.
\* Nothing forces a shutdown request, a viewer to connect, or time to pass.
Fairness ==
    /\ WF_vars(lifespan_init_db_done)
    /\ WF_vars(lifespan_await_collector)
    /\ WF_vars(lifespan_await_cleanup)
    /\ WF_vars(collector_loop_top)
    /\ WF_vars(collector_commit_done)
    /\ WF_vars(broadcast_lock_acquired)
    /\ WF_vars(broadcast_send_done)
    /\ WF_vars(collector_cancelled)
    /\ WF_vars(cleanup_loop_top)
    /\ WF_vars(cleanup_execute_done)
    /\ WF_vars(cleanup_commit_done)
    /\ WF_vars(cleanup_cancelled)
    /\ \A h \in Handles : WF_vars(ws_lock_acquired(h))

FairLife == SpecLife /\ Fairness

\* the same guarantees for the steps of the registry side
FairnessRegistry ==
    /\ WF_vars(broadcast_lock_acquired)
    /\ WF_vars(broadcast_send_done)
    /\ WF_vars(collector_cancelled)
    /\ \A h \in Handles : WF_vars(ws_lock_acquired(h))

FairRegistry == SpecRegistry /\ FairnessRegistry

\* ---- observations used by the properties -----------------------------------
StopRequested == lifespan_pc \in {"await_collector", "await_cleanup", "exit"}

CollectorEnded == collector_pc \in {"finished", "cancelled"}

CleanupEnded == cleanup_pc \in {"finished", "cancelled"}

\* this step is broadcast() returning to the tick
BroadcastReturns ==
    /\ collector_pc \in {"commit", "lock", "send"}
    /\ collector_pc' = "sleep"
    /\ last_tick' = "ok"

\* this step ends the delivery and removal pass of a broadcast
PassEnds == collector_pc = "send" /\ collector_pc' # "send"

\* this step completes manager.disconnect(h)
DisconnectCompletes(h) ==
    /\ ws_pc[h] \notin {"closed", "error"}
    /\ ws_pc'[h] \in {"closed", "error"}

\* ---- C1 --------------------------------------------------------------------
\* C1: when a broadcast that ran a delivery pass returns, send_text was
\* called on every handle of the registry, the handles whose send returned
\* are still registered, exactly those whose send raised are gone, and the
\* call returned normally (the tick goes on to its sleep with outcome "ok").
C1_BroadcastIsolation ==
    [][(PassEnds /\ collector_pc' # "cancelled") =>
          /\ BroadcastReturns
          /\ bcast_attempted' = Range(active_connections)
          /\ Range(active_connections') =
                Range(active_connections) \ bcast_failed'
          /\ active_connections' =
                SelectSeq(active_connections, LAMBDA h : h \notin bcast_failed')
      ]_vars

C1_Witness ==
    /\ collector_pc = "sleep"
    /\ last_tick = "ok"
    /\ Cardinality(bcast_attempted) >= 2
    /\ bcast_failed # {}
    /\ bcast_failed # bcast_attempted
    /\ Range(active_connections) = bcast_attempted \ bcast_failed

\* ---- C2 --------------------------------------------------------------------
\* C2: the lock is held exactly while a broadcast is inside its delivery and
\* removal pass (connect and disconnect hold it for a step that contains no
\* await), and while it is held no handle is added to or removed from the
\* registry except by that broadcast's own removal pass.
C2_Serialized ==
    /\ [](lock_locked <=> collector_pc = "send")
    /\ [][collector_pc = "send" =>
             \/ active_connections' = active_connections
             \/ /\ BroadcastReturns
                /\ active_connections' =
                      remove_disconnected(active_connections, disconnected')
         ]_vars

C2_Witness ==
    /\ collector_pc = "send"
    /\ \E h \in Handles : ws_pc[h] = "lock_connect"
    /\ \E h \in Handles : ws_pc[h] = "lock_disconnect"

\* ---- C3 --------------------------------------------------------------------
\* C3 as claimed: when broadcast() returns, send_text was called on every
\* handle that was in the registry when the call was invoked.
C3_LiveAtCallAttempted ==
    [][BroadcastReturns => bcast_at_call' \subseteq bcast_attempted']_vars

\* C3 amended: when broadcast() returns, send_text was called on exactly
\* the handles that were in the registry when the delivery pass began, that
\* is when the call had acquired the lock.
C3_LiveAtPassAttempted ==
    [][BroadcastReturns => bcast_at_pass' = bcast_attempted']_vars

C3_Witness ==
    /\ collector_pc = "sleep"
    /\ last_tick = "ok"
    /\ bcast_attempted # {}
    /\ bcast_attempted # bcast_at_call

\* ---- C4 --------------------------------------------------------------------
\* C4: the sampling task ends only after a stop was requested; while none is
\* requested, a step that ends a tick or fails it leaves the task in its
\* sleep; and as long as the application runs (lifespan has yielded and no
\* stop is requested) new ticks keep beginning.
C4_FailedTickNeverStopsLoop ==
    /\ [](CollectorEnded => StopRequested)
    /\ [][(/\ collector_pc \in {"created", "sleep", "commit", "lock", "send"}
           /\ collector_pc' \notin {"commit", "lock", "send"}
           /\ ~StopRequested')
          => (collector_pc' = "sleep" \/ collector_pc' = collector_pc)]_vars
    /\ []<>(lifespan_pc # "yield" \/ tick_parity = 0)
    /\ []<>(lifespan_pc # "yield" \/ tick_parity = 1)

C4_Witness ==
    /\ last_tick = "failed"
    /\ collector_pc = "commit"
    /\ ~StopRequested

\* ---- C5 --------------------------------------------------------------------
\* C5 as claimed: a task that has ended after a stop request ended at the
\* loop-top test of the flag (or in the sleep that leads to it), never while
\* it awaited a store commit or statement, the registry lock or a send.
C5_ExitOnlyAtLoopTop ==
    [][/\ (collector_pc # "cancelled" /\ collector_pc' = "cancelled")
             => collector_pc = "sleep"
       /\ (cleanup_pc # "cancelled" /\ cleanup_pc' = "cancelled")
             => cleanup_pc = "sleep"
      ]_vars

\* ---- C6 --------------------------------------------------------------------
\* C6: once shutdown has started, lifespan eventually exits with both tasks
\* ended, and lifespan never raises once the tasks exist.
C6_ShutdownCompletes ==
    /\ StopRequested ~> (lifespan_pc = "exit" /\ CollectorEnded /\ CleanupEnded)
    /\ [](lifespan_pc = "raised" => collector_pc = "none")

\* (send_idx is positive only from the start of a delivery pass to its end:
\* the collector was cancelled while it held the lock)
C6_Witness ==
    /\ lifespan_pc = "exit"
    /\ collector_pc = "cancelled"
    /\ cleanup_pc = "cancelled"
    /\ send_idx >= 1
    /\ ~lock_locked

\* ---- C7 --------------------------------------------------------------------
\* C7: the two tasks exist only once init_db() has returned; when init_db()
\* raised, lifespan raised and neither task was ever created.
C7_TasksOnlyAfterInitDb ==
    lifespan_pc \in {"start", "init_db", "raised"} =>
        collector_pc = "none" /\ cleanup_pc = "none"

C7_Witness ==
    lifespan_pc = "raised" /\ collector_pc = "none" /\ cleanup_pc = "none"

\* ---- C8 --------------------------------------------------------------------
\* C8: after a sweep that committed, and until the next sweep begins, no row
\* of the store has a timestamp before that sweep's cutoff, whatever inserts
\* interleaved with it.
C8_RetentionInvariant ==
    (cleanup_pc = "sleep" /\ last_sweep = "ok") =>
        \A r \in store : r.timestamp >= cutoff

C8_Witness ==
    /\ cleanup_pc = "sleep"
    /\ last_sweep = "ok"
    /\ swept # {}
    /\ store # {}

\* ---- C9 --------------------------------------------------------------------
\* C9: rows leave the store only in the commit of a sweep and every row that
\* leaves is strictly older than that sweep's cutoff; the only rows that
\* appear carry the current time, which during a sweep is at least the
\* horizon later than the sweep's cutoff, so that a row inserted while a
\* sweep runs is not among the rows the sweep deletes.
C9_OnlyOldRowsDeleted ==
    /\ [][/\ \A r \in store' \ store : r.timestamp = now
          /\ (store \ store' # {} =>
                 /\ cleanup_pc = "commit"
                 /\ \A r \in store \ store' : r.timestamp < cutoff)
         ]_vars
    /\ [](cleanup_pc \in {"execute", "commit"} =>
             /\ now >= cutoff + history_retention_hours
             /\ \A r \in victims : r.timestamp < cutoff)

C9_Witness ==
    /\ cleanup_pc = "sleep"
    /\ last_sweep = "ok"
    /\ swept # {}
    /\ \A r \in swept : r.timestamp < cutoff
    /\ \E r \in store : r.timestamp >= cutoff + history_retention_hours

\* ---- C10 -------------------------------------------------------------------
\* C10: a disconnect of a handle that is not in the registry leaves the
\* registry as it was and does not raise, and in every reachable registry a
\* second disconnect of a handle changes nothing after the first.
C10_DisconnectIdempotent ==
    /\ [][\A h \in Handles :
             DisconnectCompletes(h) =>
                 /\ ws_pc'[h] = "closed"
                 /\ (~InList(h, active_connections) =>
                        active_connections' = active_connections)
         ]_vars
    /\ [](\A h \in Handles :
             LET once == disconnect_body(active_connections, h)
                 twice == disconnect_body(once.conns, h)
             IN  twice.conns = once.conns /\ ~twice.raised)

C10_Witness ==
    \E h \in Handles : ws_pc[h] = "closed" /\ removed_by[h] = "broadcast"

\* ---- C12 -------------------------------------------------------------------
\* this step ends a heartbeat wait of h
WaitEnds(h) ==
    /\ ws_pc[h] = "receive"
    /\ ws_pc'[h] # "receive" \/ ws_event'[h] # ws_event[h]

\* this step calls send_text("ping") on h
PingSent(h) == ws_pc[h] # "send_ping" /\ ws_pc'[h] = "send_ping"

\* this step calls send_text("pong") on h
PongSent(h) == ws_pc[h] # "send_pong" /\ ws_pc'[h] = "send_pong"

\* C12: a wait that ends by its timeout is followed at once by one "ping" to
\* that connection; a "ping" is sent by the endpoint in no other step; and
\* when the send is over the endpoint waits again (or leaves the loop if the
\* send failed), so that no second ping goes out without another timeout.
C12_OnePingPerExpiry ==
    [][\A h \in Handles :
          /\ (WaitEnds(h) /\ ws_event'[h].kind = "timeout") => PingSent(h)
          /\ PingSent(h) => (WaitEnds(h) /\ ws_event'[h].kind = "timeout")
          /\ (ws_pc[h] = "send_ping" /\ ws_pc'[h] # "send_ping") =>
                 \/ ws_pc'[h] = "receive" /\ ws_event'[h].kind = "timeout"
                 \/ ws_event'[h].kind = "send_failed"
      ]_vars

\* a ping was sent after a timeout and the endpoint waits again
C12_Witness ==
    \E h \in Handles :
        /\ ws_pc[h] = "receive"
        /\ ws_event[h].kind = "timeout"
        /\ InList(h, active_connections)

\* ---- C13 -------------------------------------------------------------------
\* C13: the endpoint sends "pong" in exactly the steps in which a wait ends
\* with the text "ping"; when the send is over it waits again (or leaves if
\* the send failed); a wait that ends with any other text sends nothing,
\* keeps the endpoint waiting and leaves the registry as it was.
C13_PongIffPing ==
    [][\A h \in Handles :
          /\ PongSent(h) <=>
                (WaitEnds(h) /\ ws_event'[h] = [kind |-> "text", data |-> "ping"])
          /\ (WaitEnds(h) /\ ws_event'[h].kind = "text"
                          /\ ws_event'[h].data # "ping") =>
                 /\ ws_pc'[h] = "receive"
                 /\ active_connections' = active_connections
          /\ (ws_pc[h] = "send_pong" /\ ws_pc'[h] # "send_pong") =>
                 \/ ws_pc'[h] = "receive"
                 \/ ws_event'[h].kind = "send_failed"
      ]_vars

\* one connection has sent another text and is still registered and waited
\* on, another is being answered "pong"
C13_Witness ==
    /\ \E h \in Handles :
          /\ ws_pc[h] = "receive"
          /\ ws_event[h] = [kind |-> "text", data |-> "PING"]
          /\ InList(h, active_connections)
    /\ \E h \in Handles : ws_pc[h] = "send_pong"

\* ---- C14 -------------------------------------------------------------------
\* the last ping to h could not be sent
PingFailed(h) == ws_event[h] = [kind |-> "send_failed", data |-> "ping"]

\* C14: once a ping could not be sent the endpoint never waits for a message
\* again: it is in disconnect, queued for the registry lock, or closed; a
\* closed endpoint's handle is not in the registry; and the endpoint does
\* get closed.
C14_FailedPingUnregisters ==
    /\ [](\A h \in Handles :
             PingFailed(h) => ws_pc[h] \in {"lock_disconnect", "closed"})
    /\ [](\A h \in Handles :
             ws_pc[h] = "closed" => ~InList(h, active_connections))
    /\ \A h \in Handles : PingFailed(h) ~> ws_pc[h] = "closed"

\* a handle whose ping failed has been closed by its own disconnect while a
\* broadcast is under way
C14_Witness ==
    \E h \in Handles :
        /\ PingFailed(h)
        /\ ws_pc[h] = "closed"
        /\ removed_by[h] = "disconnect"
        /\ collector_pc = "send"

\* ---- C15 -------------------------------------------------------------------
\* a metric is breached when its reading is present and at least its threshold
breached(m, s) ==
    [cpu |-> m.cpu_percent >= s.cpu_alert_threshold,
     ram |-> m.ram_percent >= s.ram_alert_threshold,
     disk |-> m.disk_percent >= s.disk_alert_threshold,
     temp |-> m.cpu_temp # None /\ m.cpu_temp[1] >= s.temp_alert_threshold]

\* the metrics of a list of alerts, in the order of the list
alert_metrics(alerts) == [i \in 1..Len(alerts) |-> alerts[i].metric]

\* the breached metrics in the order CPU, RAM, disk, temperature
breached_in_order(m, s) ==
    LET b == breached(m, s)
    IN  (IF b.cpu THEN <<"cpu">> ELSE <<>>) \o (IF b.ram THEN <<"ram">> ELSE <<>>)
        \o (IF b.disk THEN <<"disk">> ELSE <<>>)
        \o (IF b.temp THEN <<"temp">> ELSE <<>>)

\* C15 as claimed: for every input and all thresholds, the list check_alerts
\* returns has exactly one alert for each breached metric and none for any
\* other, in the order CPU, RAM, disk, temperature.
C15_OneAlertPerBreachInOrder ==
    alert_output.returned =>
        alert_metrics(alert_output.alerts) = breached_in_order(alert_input, settings)

\* ---- C16 -------------------------------------------------------------------
\* C16 as claimed: a present temperature of exactly zero gives a temperature
\* alert exactly when zero is at least the threshold, as for any other present
\* reading, and an absent temperature gives none.
C16_ZeroTemperatureCompared ==
    alert_output.returned =>
        LET alerted == \E i \in 1..Len(alert_output.alerts) :
                           alert_output.alerts[i].metric = "temp"
        IN  /\ alert_input.cpu_temp = <<0>> =>
                   (alerted <=> 0 >= settings.temp_alert_threshold)
            /\ alert_input.cpu_temp = None => ~alerted

\* ---- C11 -------------------------------------------------------------------
\* the numeric fields of a snapshot, of a row or of a response
sample_fields(x) ==
    [cpu_percent |-> x.cpu_percent, ram_percent |-> x.ram_percent,
     ram_used_gb |-> x.ram_used_gb, ram_total_gb |-> x.ram_total_gb,
     disk_percent |-> x.disk_percent, disk_used_gb |-> x.disk_used_gb,
     disk_total_gb |-> x.disk_total_gb, cpu_temp |-> x.cpu_temp,
     uptime_seconds |-> x.uptime_seconds]

\* this step begins the broadcast of a tick
BroadcastBegins ==
    /\ collector_pc \notin {"lock", "send"}
    /\ collector_pc' \in {"lock", "send"}

\* C11: while a tick waits for its commit or broadcasts, its snapshot holds
\* the alerts evaluated on its own readings (query and evaluation come
\* first); a broadcast begins only in the step in which the commit of the
\* tick returns and the row is in the table; and while the tick broadcasts,
\* a row with the numeric fields of its snapshot is stored and the text being
\* sent is the event of type "metrics" whose data is that whole snapshot,
\* alerts included.
C11_TickOrderAndPayload ==
    /\ [](collector_pc \in {"commit", "lock", "send"} =>
             /\ metrics # None
             /\ metrics[1].alerts = check_alerts(metrics[1], settings))
    /\ [][BroadcastBegins =>
             /\ collector_pc = "commit"
             /\ \E r \in store' :
                   r.timestamp = now /\ sample_fields(r) = sample_fields(metrics[1])
         ]_vars
    /\ [](collector_pc \in {"lock", "send"} =>
             /\ \E r \in store : sample_fields(r) = sample_fields(metrics[1])
             /\ message # None
             /\ message[1].type = "metrics"
             /\ message[1].data = metrics[1])

C11_Witness ==
    /\ collector_pc = "send"
    /\ send_idx = 2
    /\ system = reading_quiet
    /\ Len(message[1].data.alerts) >= 2
    /\ \E r \in store : r.cpu_percent = reading_quiet.cpu_percent

\* ---- C17 -------------------------------------------------------------------
\* this step begins a tick whose readings were collected
TickCollects == tick_parity' # tick_parity /\ collector_pc' = "commit"

Delivered(h) ==
    /\ collector_pc = "send"
    /\ active_connections[send_idx] = h
    /\ collector_pc' # "cancelled"
    /\ send_idx' # send_idx
    /\ h \notin bcast_failed'

\* C18: every event a connection receives from the sampling loop is the
\* event of the tick that is running, it receives it at most once, and when
\* a tick is not broadcasting no event is left to be sent; ticks follow one
\* another, so a connection receives the events in the order of the ticks.
C18_DeliveredInTickOrder ==
    /\ [][\A h \in Handles :
             Delivered(h) =>
                 /\ h \notin bcast_attempted
                 /\ message[1].data = metrics[1]
                 /\ message[1].timestamp <= now
                 /\ tick_parity' = tick_parity
         ]_vars
    /\ [](collector_pc \notin {"lock", "send"} => message = None)

C18_Witness ==
    /\ collector_pc = "send"
    /\ send_idx = 2
    /\ active_connections[1] \in bcast_attempted \ bcast_failed
    /\ \E r \in store : sample_fields(r) # sample_fields(metrics[1])

\* ---- C19 -------------------------------------------------------------------
\* C19: the sweeper task ends only after a stop was requested and lifespan
\* never raises once the task exists; a step in which the DELETE statement or
\* its commit fails leaves the task in its sleep; and after a failed sweep the
\* next sweep begins, unless the application has stopped running.
C19_FailedSweepNeverStopsSweeper ==
    /\ [](CleanupEnded => StopRequested)
    /\ [](lifespan_pc = "raised" => cleanup_pc = "none")
    /\ [][(/\ cleanup_pc \in {"execute", "commit"}
           /\ cleanup_pc' \notin {"execute", "commit"}
           /\ ~cleanup_cancel)
          => cleanup_pc' = "sleep"]_vars
    /\ (cleanup_pc = "sleep" /\ last_sweep = "failed")
          ~> (cleanup_pc = "execute" \/ lifespan_pc # "yield")

C19_Witness ==
    /\ last_sweep = "failed"
    /\ cleanup_pc = "execute"
    /\ ~StopRequested

\* ---- C20 -------------------------------------------------------------------
\* this step answers GET /api/metrics/latest
LatestAnswered == latest_response' # latest_response

\* the tick that ran last has committed and nothing newer than its row exists:
\* the row on top of the table is alone at its timestamp, which is the
\* present time
LastTickOnTop ==
    /\ collector_pc = "sleep"
    /\ last_tick = "ok"
    /\ \E r \in store :
          /\ r.timestamp = now
          /\ order_by_timestamp_desc_limit_1(store) = {r}

\* C20: when the latest row is asked for right after a tick has written its
\* sample, the answer is 200 and carries the numeric fields of that tick's
\* snapshot, each under its own name, an absent temperature staying absent.
C20_RoundTrip ==
    [][(LatestAnswered /\ LastTickOnTop) =>
          /\ latest_response'.status = 200
          /\ sample_fields(latest_response'.body[1]) = sample_fields(metrics[1])
          /\ latest_response'.body[1].timestamp = now
      ]_vars

C20_Witness ==
    /\ LastTickOnTop
    /\ now > 0
    /\ Cardinality(store) >= 2
    /\ latest_response.status = 200
    /\ latest_response.body[1].timestamp = now
    /\ latest_response.body[1].cpu_temp = None
    /\ metrics[1].cpu_temp = None
    /\ \E r \in store : r.cpu_temp # None

\* ---- C21 -------------------------------------------------------------------
\* C21 as claimed: when the application has been started with interval I,
\* stopped D after the launch of its tasks and has exited, no tick having
\* failed, the number of rows committed is at least floor(D/I) and at most
\* floor(D/I) + 1, both tasks have ended, and no more than one interval
\* has passed since the stop was requested.
C21_Cadence ==
    lifespan_pc = "exit" =>
        /\ rows_committed >= run_for \div interval
        /\ rows_committed <= run_for \div interval + 1
        /\ CollectorEnded /\ CleanupEnded
        /\ elapsed - run_for <= interval

\* ---- C22 -------------------------------------------------------------------
\* the connect or disconnect of h is queued for the registry lock
Queued(h) == ws_pc[h] \in {"lock_connect", "lock_disconnect"}

\* this step begins a delivery pass
PassBegins == collector_pc # "send" /\ collector_pc' = "send"

\* C22: a connect or disconnect that arrives during a delivery pass queues
\* for the lock and changes nothing until the pass is over; the pass that
\* ends with calls queued has sent to every handle that was registered when
\* it began and returns normally, leaving the queue as it was; the next
\* pass begins only after every call queued before it has had the lock; and
\* every queued call does complete, also while ticks keep broadcasting.
C22_QueuedCallsCompleteAfterPass ==
    /\ [][\A h \in Handles :
             (Queued(h) /\ collector_pc = "send") =>
                 /\ Queued(h)'
                 /\ (h \in Range(active_connections')
                        <=> h \in Range(active_connections))
                    \/ h \in bcast_failed'
         ]_vars
    /\ [][(PassEnds /\ collector_pc' # "cancelled" /\ lock_waiters # <<>>) =>
             /\ BroadcastReturns
             /\ bcast_attempted' = bcast_at_pass
             /\ bcast_at_pass = Range(active_connections)
             /\ lock_waiters' = lock_waiters
         ]_vars
    /\ [][PassBegins =>
             lock_waiters = <<>> \/ Head(lock_waiters) = Collector]_vars
    /\ \A h \in Handles : Queued(h) ~> ~Queued(h)

\* the next broadcast has come while a call of the previous pass is still
\* queued, and has queued behind it
C22_Witness ==
    /\ collector_pc = "lock"
    /\ Len(lock_waiters) >= 2
    /\ Head(lock_waiters) \in Handles
    /\ lock_waiters[Len(lock_waiters)] = Collector
    /\ last_tick = "ok"
    /\ bcast_attempted = {}

\* ---- C23 -------------------------------------------------------------------
\* this step is the sweeper's loop test, not a cancellation
SweeperTestsFlag ==
    /\ cleanup_pc \in {"created", "sleep"}
    /\ cleanup_pc' \notin {"created", "sleep", "cancelled"}

Terminated == {"closed", "error", "rejected"}

\* this step ends the endpoint of h
HandlerEnds(h) == ws_pc[h] \notin Terminated /\ ws_pc'[h] \in Terminated

\* C24: the step that ends an endpoint leaves its handle out of the
\* registry, whatever made the endpoint leave its loop and whether or not
\* the handle was still registered; the handle stays out from then on; and
\* an endpoint that has left its try block is in disconnect (queued for the
\* lock) or is over, never waiting for a message or sending again.
C24_TerminatedMeansUnregistered ==
    /\ [][\A h \in Handles :
             HandlerEnds(h) => h \notin Range(active_connections')]_vars
    /\ [][\A h \in Handles :
             (ws_pc[h] \in Terminated /\ h \notin Range(active_connections))
                => (ws_pc'[h] = ws_pc[h] /\ h \notin Range(active_connections'))
         ]_vars
    /\ [](\A h \in Handles :
             ws_event[h].kind \in {"disconnect", "send_failed"}
                => ws_pc[h] \in {"lock_disconnect", "closed"})

\* one endpoint ended after a ping that could not be sent, its handle pruned
\* by a broadcast before its disconnect ran; the other ended when its viewer
\* went away and unregistered itself
C24_Witness ==
    \E h, k \in Handles :
        /\ ws_pc[h] = "closed"
        /\ ws_event[h] = [kind |-> "send_failed", data |-> "ping"]
        /\ removed_by[h] = "broadcast"
        /\ ws_pc[k] = "closed"
        /\ ws_event[k].kind = "disconnect"
        /\ removed_by[k] = "disconnect"
        /\ active_connections = <<>>

\* ---- C27 -------------------------------------------------------------------
\* this step calls the endpoint's send_json on h
InitialSendBegins(h) == ws_pc[h] # "initial_send" /\ ws_pc'[h] = "initial_send"

\* the initial send to h raised
InitialSendFailed(h) == ws_event[h] = [kind |-> "send_failed", data |-> "metrics"]

CommitFails ==
    /\ collector_pc = "commit"
    /\ collector_pc' = "sleep"
    /\ last_tick' = "failed"

\* C25: a broadcast begins only in the step in which the commit of the same
\* tick returns, and the row of the tick's snapshot is then in the table; a
\* commit that raises stores nothing and the tick goes to its sleep with no
\* message built and no send attempted, and none is until the next tick
\* begins; and no step of a broadcast, a send that raises included, takes a
\* row out of the table.
C25_BroadcastOnlyAfterCommit ==
    /\ [][BroadcastBegins =>
             /\ collector_pc = "commit"
             /\ Metric(metrics[1], now) \in store'
         ]_vars
    /\ [][CommitFails =>
             /\ store' = store
             /\ message' = None
             /\ bcast_attempted' = {}
         ]_vars
    /\ [](last_tick = "failed" /\ collector_pc = "sleep" =>
             message = None /\ bcast_attempted = {})
    /\ [][(collector_pc \in {"lock", "send"}) => store \subseteq store']_vars
    /\ [](collector_pc \in {"lock", "send"} =>
             Metric(metrics[1], now) \in store)

\* a tick whose commit raised sleeps without having sent anything to the
\* registered viewer; an earlier tick lost a viewer to a failed delivery and
\* its row is still stored
C25_Witness ==
    /\ collector_pc = "sleep"
    /\ last_tick = "failed"
    /\ metrics # None
    /\ Metric(metrics[1], now) \notin store
    /\ store # {}
    /\ active_connections # <<>>
    /\ bcast_attempted = {}
    /\ \E h \in Handles : removed_by[h] = "broadcast"

\* ---- C26 -------------------------------------------------------------------
\* this step is a send_text of the broadcast to h that returned or raised
SendAttempted(h) ==
    /\ collector_pc = "send"
    /\ active_connections[send_idx] = h
    /\ collector_pc' # "cancelled"
    /\ send_idx' # send_idx

\* C26: every websocket is registered at most once (the endpoint calls
\* connect once on the object it is given), and then no handle is twice in
\* the list; a handle whose disconnect has returned is not in the list; a
\* broadcast calls send_text at most once on a handle; and connection_count
\* is the number of distinct handles in the list.
C26_NoHandleTwice ==
    /\ [](\A i, j \in 1..Len(active_connections) :
             i # j => active_connections[i] # active_connections[j])
    /\ [](\A h \in Handles :
             ws_pc[h] \in {"closed", "error"} => h \notin Range(active_connections))
    /\ [][\A h \in Handles : SendAttempted(h) => h \notin bcast_attempted]_vars
    /\ [](connection_count = Cardinality(Range(active_connections)))

\* one handle was unregistered by its disconnect, the other is registered
\* and the broadcast that has just returned sent to it
C26_Witness ==
    \E h, k \in Handles :
        /\ ws_pc[h] = "closed"
        /\ removed_by[h] = "disconnect"
        /\ active_connections = <<k>>
        /\ bcast_attempted = {k}
        /\ collector_pc = "sleep"
        /\ connection_count = 1

\* ---- C28 -------------------------------------------------------------------
\* the list of alerts has one about the metric
alerted_on(alerts, metric) == \E i \in 1..Len(alerts) : alerts[i].metric = metric

\* C28: a CPU, RAM or disk reading equal to its threshold, and a present
\* temperature other than zero equal to its threshold, is alerted on; a
\* reading strictly below its threshold never is.
C28_InclusiveThresholds ==
    alert_output.returned =>
        LET a == alert_output.alerts
            m == alert_input
            s == settings
        IN  /\ m.cpu_percent = s.cpu_alert_threshold => alerted_on(a, "cpu")
            /\ m.ram_percent = s.ram_alert_threshold => alerted_on(a, "ram")
            /\ m.disk_percent = s.disk_alert_threshold => alerted_on(a, "disk")
            /\ (m.cpu_temp # None /\ m.cpu_temp[1] # 0
                   /\ m.cpu_temp[1] = s.temp_alert_threshold)
                  => alerted_on(a, "temp")
            /\ m.cpu_percent < s.cpu_alert_threshold => ~alerted_on(a, "cpu")
            /\ m.ram_percent < s.ram_alert_threshold => ~alerted_on(a, "ram")
            /\ m.disk_percent < s.disk_alert_threshold => ~alerted_on(a, "disk")
            /\ (m.cpu_temp # None /\ m.cpu_temp[1] < s.temp_alert_threshold)
                  => ~alerted_on(a, "temp")

\* every reading sits exactly on its threshold and every metric is alerted on
C28_Witness ==
    /\ alert_output.returned
    /\ alert_input.cpu_percent = settings.cpu_alert_threshold
    /\ alert_input.ram_percent = settings.ram_alert_threshold
    /\ alert_input.disk_percent = settings.disk_alert_threshold
    /\ alert_input.cpu_temp = <<settings.temp_alert_threshold>>
    /\ alert_metrics(alert_output.alerts) = <<"cpu", "ram", "disk", "temp">>

TypeOK ==
    /\ lifespan_pc \in {"start", "init_db", "yield", "await_collector",
                        "await_cleanup", "exit", "raised"}
    /\ background_task_running \in BOOLEAN
    /\ collector_pc \in {"none", "created", "commit", "lock", "send", "sleep",
                         "finished", "cancelled"}
    /\ cleanup_pc \in {"none", "created", "execute", "commit", "sleep",
                       "finished", "cancelled"}
    /\ ws_pc \in [Handles -> {"idle", "accept", "rejected", "lock_connect",
                              "initial_send", "receive", "send_pong",
                              "send_ping", "lock_disconnect", "closed"}]
    /\ lock_locked \in BOOLEAN
    /\ \A r \in store : r.timestamp \in 0..MaxTime
    /\ now \in 0..MaxTime

====
